---- MODULE Spec2Model ----
(***************************************************************************)
(* Schelling-point oracle of src/runtime/src/schelling.rs: the epoch /    *)
(* commit-reveal state machine (new_epoch, submit_hash, submit_value,      *)
(* withdraw) and the settlement algorithm (send_rewards).                  *)
(*                                                                         *)
(* Storage items are the variables.  Every dispatchable is one action that *)
(* runs the whole handler; the dispatch outcome (Ok, the error string of   *)
(* the failing ensure!/ok_or, or a panic) is recorded in last, and the     *)
(* calls the handler made to the token module are recorded in calls.       *)
(* Events are not modelled: no handler reads them.                         *)
(***************************************************************************)
EXTENDS Integers, Sequences, FiniteSets, TLC

----------------------------------------------------------------------------
(* Bounds of the model *)

\* the clock stops here
MaxBlock == 153
\* submit_value is not explored once ValidMessages holds this many entries
MaxValid == 3
\* width of T::BlockNumber, scaled down
MaxBlockNumber == 255
\* width of T::TokenBalance, scaled down
MaxTokenBalance == 65535
\* free token balance of every participant / of the treasury at genesis
InitBalance == 300
InitTreasury == 100
\* largest ValidMessages the settlement specification starts from
MaxReveal == 4
\* chain height at which the specification of the deadline overflow starts
HighBlock == 200

----------------------------------------------------------------------------
(* Program constants *)

COMMIT_WINDOW == 50
REVEAL_DEADLINE == 100
SETTLEMENT_OFFSET == 101
REFUND_PERCENT == 99
PERCENT_BASE == 100
REWARD == 100
STATUS_COMMITTED == 1
STATUS_REVEALED == 2

\* dispatch outcomes: Ok, or the &'static str of the failing check
Ok == "Ok"
DuplicateCommitment == "There is a submission made by the message sender"
InsufficientDeposit == "The deposit is not high enough"
Overflow == "Overflow"
DeadlinePassedHash == "The deadline for hash submission is passed, try next epoch"
NoCommitment == "Message hash was not submitted"
TooEarlyValue == "Hash submission round did not end yet"
DeadlinePassedValue == "The deadline for value submission is passed, please withdraw deposit"
InvalidStatus == "Message status should be 1"
HashMismatch == "Hashes do not match"
TooEarlyRewards == "It's not the time to send out the rewards yet"
overflow == "overflow"
BadOrigin == "bad origin"
LedgerError == "LedgerError"
\* valid_messages[median_index] on an index that is out of bounds
IndexPanic == "panic: index out of bounds"

----------------------------------------------------------------------------
(* Inputs *)

Accounts == {1, 2}
\* origins: RawOrigin::Root and RawOrigin::Signed(account)
ROOT == <<"root", 0>>
Signed(a) == <<"signed", a>>
\* origins tried on the privileged calls: root and one signed account
Origins == {ROOT, Signed(1)}
\* values a participant may reveal
Values == {10, 20}
\* values a participant may have hashed into a commitment
CommitValues == {0, 10}
Deposits == {1, 150}
\* number of blocks between two observations of the clock
Steps == {49, 50, 51}

\* (sender, value).using_encoded(Hashing::hash): a collision-free digest
Hash(owner, value) == <<owner, value>>
Hashes == {Hash(o, v) : o \in Accounts, v \in CommitValues}
\* hashes a sender may submit: a digest of its own identity and a value, or a copy
\* of the commitment of account 1
HashChoices(sender) == {Hash(sender, v) : v \in CommitValues} \cup {Hash(1, 0)}

VARIABLES
    block_number,   \* system::block_number()
    epoch_start,    \* EpochStart
    Messages,       \* Messages: map AccountId => Message, as a function on the keys present
    ValidMessages,  \* ValidMessages: Vec<Message>
    Value,          \* Value
    min_deposit,    \* MinDeposit
    balance,        \* token module: free balance of each account
    locked,         \* token module: amount locked under each tag (hash)
    last,           \* the last dispatch: [op, who, res]
    calls,          \* the token-module calls issued by the last dispatch
    reveal_seen     \* history: a submit_value has succeeded since epoch_start last changed

vars == <<block_number, epoch_start, Messages, ValidMessages, Value, min_deposit,
          balance, locked, last, calls, reveal_seen>>

\* TokenBase: never written by the module, so it keeps the default AccountId
token_base == 0

Message(owner, status, hash, value, deposit) ==
    [owner |-> owner, status |-> status, hash |-> hash, value |-> value, deposit |-> deposit]

----------------------------------------------------------------------------
(* Checked arithmetic *)

NONE == -1
\* mutant: the sum wraps around the width of the block number
M_CheckedAdd(a, b) == (a + b) % (MaxBlockNumber + 1)

\* BlockNumber::checked_add
CheckedAdd(a, b) == IF a + b > MaxBlockNumber THEN NONE ELSE a + b
\* TokenBalance::checked_mul / checked_div / checked_sub
CheckedMul(a, b) == IF a * b > MaxTokenBalance THEN NONE ELSE a * b
CheckedDiv(a, b) == IF b = 0 THEN NONE ELSE a \div b
CheckedSub(a, b) == IF a < b THEN NONE ELSE a - b

----------------------------------------------------------------------------
(* Token module (crate::token): lock, unlock, transfer_from *)

Ledger(bal, lck) == [bal |-> bal, lck |-> lck]

lock(L, who, amount, tag) ==
    IF L.bal[who] < amount
    THEN [err |-> LedgerError, L |-> L]
    ELSE [err |-> Ok,
          L |-> Ledger([L.bal EXCEPT ![who] = @ - amount],
                       [L.lck EXCEPT ![tag] = @ + amount])]

unlock(L, who, amount, tag) ==
    IF L.lck[tag] < amount
    THEN [err |-> LedgerError, L |-> L]
    ELSE [err |-> Ok,
          L |-> Ledger([L.bal EXCEPT ![who] = @ + amount],
                       [L.lck EXCEPT ![tag] = @ - amount])]

transfer_from(L, from, to, amount) ==
    IF L.bal[from] < amount
    THEN [err |-> LedgerError, L |-> L]
    ELSE [err |-> Ok,
          L |-> Ledger([[L.bal EXCEPT ![from] = @ - amount] EXCEPT ![to] = @ + amount],
                       L.lck)]

LockCall(who, amount, tag) == <<"lock", who, amount, tag>>
UnlockCall(who, amount, tag) == <<"unlock", who, amount, tag>>
TransferCall(from, to, amount) == <<"transfer_from", from, to, amount>>

----------------------------------------------------------------------------
(* Init *)

Init ==
    /\ block_number = 1
    /\ epoch_start = 0
    /\ Messages = [a \in {} |-> a]
    /\ ValidMessages = <<>>
    /\ Value = 0
    /\ min_deposit = 2
    /\ balance = [a \in Accounts \cup {token_base} |->
                    IF a = token_base THEN InitTreasury ELSE InitBalance]
    /\ locked = [h \in Hashes |-> 0]
    /\ last = [op |-> "genesis", who |-> ROOT, res |-> Ok]
    /\ calls = <<>>
    /\ reveal_seen = FALSE

\* a dispatch that returns res without having written anything
Fails(op, who, res) ==
    /\ last' = [op |-> op, who |-> who, res |-> res]
    /\ calls' = <<>>
    /\ UNCHANGED reveal_seen
    /\ UNCHANGED <<block_number, epoch_start, Messages, ValidMessages, Value,
                   min_deposit, balance, locked>>

----------------------------------------------------------------------------
(* The clock *)

AdvanceBlock(d) ==
    /\ block_number + d <= MaxBlock
    /\ block_number' = block_number + d
    /\ last' = [op |-> "block", who |-> ROOT, res |-> Ok]
    /\ calls' = <<>>
    /\ UNCHANGED reveal_seen
    /\ UNCHANGED <<epoch_start, Messages, ValidMessages, Value, min_deposit,
                   balance, locked>>

----------------------------------------------------------------------------
(* new_epoch *)

\* mutant: starting an epoch also empties ValidMessages
M_new_epoch(origin) ==
    IF origin # ROOT
    THEN Fails("new_epoch", origin, BadOrigin)
    ELSE /\ epoch_start' = block_number
         /\ ValidMessages' = <<>>
         /\ last' = [op |-> "new_epoch", who |-> origin, res |-> Ok]
         /\ calls' = <<>>
         /\ reveal_seen' = (reveal_seen /\ epoch_start' = epoch_start)
         /\ UNCHANGED <<block_number, Messages, Value, min_deposit, balance, locked>>

\* mutant: starting an epoch also drops the pending commitments
M_new_epoch_drop(origin) ==
    IF origin # ROOT
    THEN Fails("new_epoch", origin, BadOrigin)
    ELSE /\ epoch_start' = block_number
         /\ Messages' = [a \in {} |-> a]
         /\ last' = [op |-> "new_epoch", who |-> origin, res |-> Ok]
         /\ calls' = <<>>
         /\ reveal_seen' = (reveal_seen /\ epoch_start' = epoch_start)
         /\ UNCHANGED <<block_number, ValidMessages, Value, min_deposit, balance, locked>>

new_epoch(origin) ==
    IF origin # ROOT
    THEN Fails("new_epoch", origin, BadOrigin)
    ELSE /\ epoch_start' = block_number
         /\ last' = [op |-> "new_epoch", who |-> origin, res |-> Ok]
         /\ calls' = <<>>
         /\ reveal_seen' = (reveal_seen /\ epoch_start' = epoch_start)
         /\ UNCHANGED <<block_number, Messages, ValidMessages, Value, min_deposit,
                        balance, locked>>

----------------------------------------------------------------------------
(* submit_hash *)

Exists(sender) == sender \in DOMAIN Messages
Insert(sender, message) ==
    [a \in DOMAIN Messages \cup {sender} |-> IF a = sender THEN message ELSE Messages[a]]
Remove(sender) == [a \in DOMAIN Messages \ {sender} |-> Messages[a]]

\* mutant: the commit window closes two blocks late
M_BeforeDeadline(block, deadline) == block <= deadline + 1

\* the hash-submission deadline test
BeforeDeadline(block, deadline) == block < deadline

\* mutant: the duplicate test is missing
M_SubmitHashCheck(sender, deposit) ==
    LET deadline == CheckedAdd(epoch_start, COMMIT_WINDOW) IN
    IF ~(deposit >= min_deposit) THEN InsufficientDeposit
    ELSE IF deadline = NONE THEN Overflow
    ELSE IF ~(block_number < deadline) THEN DeadlinePassedHash
    ELSE Ok

\* the outcome of the checks that precede the lock
SubmitHashCheck(sender, deposit) ==
    LET deadline == CheckedAdd(epoch_start, COMMIT_WINDOW) IN
    IF Exists(sender) THEN DuplicateCommitment
    ELSE IF ~(deposit >= min_deposit) THEN InsufficientDeposit
    ELSE IF deadline = NONE THEN Overflow
    ELSE IF ~BeforeDeadline(block_number, deadline) THEN DeadlinePassedHash
    ELSE Ok

submit_hash(sender, hash, deposit) ==
    LET check == SubmitHashCheck(sender, deposit)
        lk == lock(Ledger(balance, locked), sender, deposit, hash)
    IN  IF check # Ok THEN Fails("submit_hash", Signed(sender), check)
        ELSE IF lk.err # Ok
        THEN /\ last' = [op |-> "submit_hash", who |-> Signed(sender), res |-> lk.err]
             /\ calls' = <<LockCall(sender, deposit, hash)>>
             /\ UNCHANGED reveal_seen
             /\ UNCHANGED <<block_number, epoch_start, Messages, ValidMessages, Value,
                            min_deposit, balance, locked>>
        ELSE /\ balance' = lk.L.bal
             /\ locked' = lk.L.lck
             /\ Messages' = Insert(sender, Message(sender, STATUS_COMMITTED, hash, 0, deposit))
             /\ last' = [op |-> "submit_hash", who |-> Signed(sender), res |-> Ok]
             /\ calls' = <<LockCall(sender, deposit, hash)>>
             /\ UNCHANGED reveal_seen
             /\ UNCHANGED <<block_number, epoch_start, ValidMessages, Value, min_deposit>>

----------------------------------------------------------------------------
(* submit_value *)

\* mutant: the reveal window opens at the commit deadline itself
M_AfterRoundOne(block, round_one_end) == block >= round_one_end

\* the reveal-window tests
AfterRoundOne(block, round_one_end) == block > round_one_end
BeforeValueDeadline(block, deadline) == block < deadline

\* the digest submit_value compares with message.hash: the tuple is built from
\* message.value, the value stored in the commitment
RevealDigest(sender, message, value) == Hash(sender, message.value)

SubmitValueCheck(sender, value) ==
    LET round_one_end == CheckedAdd(epoch_start, COMMIT_WINDOW)
        deadline == CheckedAdd(epoch_start, REVEAL_DEADLINE)
    IN  IF ~Exists(sender) THEN NoCommitment
        ELSE IF round_one_end = NONE THEN Overflow
        ELSE IF deadline = NONE THEN Overflow
        ELSE IF ~AfterRoundOne(block_number, round_one_end) THEN TooEarlyValue
        ELSE IF ~BeforeValueDeadline(block_number, deadline) THEN DeadlinePassedValue
        ELSE IF Messages[sender].status # STATUS_COMMITTED THEN InvalidStatus
        ELSE IF RevealDigest(sender, Messages[sender], value) # Messages[sender].hash
             THEN HashMismatch
        ELSE Ok

\* mutant: the revealed message keeps the status of a commitment
M_Revealed(message, value) == [message EXCEPT !.value = value]

\* message.value = value; message.status = 2
Revealed(message, value) == [message EXCEPT !.value = value, !.status = STATUS_REVEALED]

\* mutant: the message is pushed to ValidMessages before the hashes are compared
M_submit_value(sender, value) ==
    LET check == SubmitValueCheck(sender, value) IN
    IF check \notin {Ok, HashMismatch} THEN Fails("submit_value", Signed(sender), check)
    ELSE /\ Len(ValidMessages) < MaxValid
         /\ ValidMessages' = Append(ValidMessages, Revealed(Messages[sender], value))
         /\ Messages' = IF check = Ok THEN Remove(sender) ELSE Messages
         /\ last' = [op |-> "submit_value", who |-> Signed(sender), res |-> check]
         /\ calls' = <<>>
         /\ reveal_seen' = (reveal_seen \/ check = Ok)
         /\ UNCHANGED <<block_number, epoch_start, Value, min_deposit, balance, locked>>

submit_value(sender, value) ==
    LET check == SubmitValueCheck(sender, value) IN
    IF check # Ok THEN Fails("submit_value", Signed(sender), check)
    ELSE /\ Len(ValidMessages) < MaxValid
         /\ ValidMessages' = Append(ValidMessages, Revealed(Messages[sender], value))
         /\ Messages' = Remove(sender)
         /\ last' = [op |-> "submit_value", who |-> Signed(sender), res |-> Ok]
         /\ calls' = <<>>
         /\ reveal_seen' = TRUE
         /\ UNCHANGED <<block_number, epoch_start, Value, min_deposit, balance, locked>>

----------------------------------------------------------------------------
(* withdraw *)

\* mutant: a missing entry is reported as a wrong status
M_WithdrawCheck(sender) ==
    IF ~Exists(sender) THEN InvalidStatus
    ELSE IF Messages[sender].status # STATUS_COMMITTED THEN InvalidStatus
    ELSE Ok

\* mutant: withdrawal is refused until the reveal deadline of the epoch has passed
M_WithdrawCheck_gated(sender) ==
    IF ~Exists(sender) THEN NoCommitment
    ELSE IF Messages[sender].status # STATUS_COMMITTED THEN InvalidStatus
    ELSE IF block_number < epoch_start + REVEAL_DEADLINE THEN TooEarlyValue
    ELSE Ok

WithdrawCheck(sender) ==
    IF ~Exists(sender) THEN NoCommitment
    ELSE IF Messages[sender].status # STATUS_COMMITTED THEN InvalidStatus
    ELSE Ok

withdraw(sender) ==
    LET check == WithdrawCheck(sender) IN
    IF check # Ok THEN Fails("withdraw", Signed(sender), check)
    ELSE LET message == Messages[sender]
             ul == unlock(Ledger(balance, locked), message.owner, message.deposit, message.hash)
         IN  IF ul.err # Ok
             THEN /\ last' = [op |-> "withdraw", who |-> Signed(sender), res |-> ul.err]
                  /\ calls' = <<UnlockCall(message.owner, message.deposit, message.hash)>>
                  /\ UNCHANGED reveal_seen
                  /\ UNCHANGED <<block_number, epoch_start, Messages, ValidMessages, Value,
                                 min_deposit, balance, locked>>
             ELSE /\ balance' = ul.L.bal
                  /\ locked' = ul.L.lck
                  /\ Messages' = Remove(sender)
                  /\ last' = [op |-> "withdraw", who |-> Signed(sender), res |-> Ok]
                  /\ calls' = <<UnlockCall(message.owner, message.deposit, message.hash)>>
                  /\ UNCHANGED reveal_seen
                  /\ UNCHANGED <<block_number, epoch_start, ValidMessages, Value, min_deposit>>

----------------------------------------------------------------------------
(* send_rewards *)

\* valid_messages.sort_by_key(|k| k.value): a stable sort, here by insertion
RECURSIVE InsertByValue(_, _)
InsertByValue(m, s) ==
    IF s = <<>> THEN <<m>>
    ELSE IF s[Len(s)].value <= m.value THEN Append(s, m)
    ELSE Append(InsertByValue(m, SubSeq(s, 1, Len(s) - 1)), s[Len(s)])

RECURSIVE SortByValue(_)
SortByValue(s) ==
    IF s = <<>> THEN <<>>
    ELSE InsertByValue(s[Len(s)], SortByValue(SubSeq(s, 1, Len(s) - 1)))

\* mutant: the lower of the two middle positions is taken as the median
M_MedianIndex(n) == IF n = 0 THEN 0 ELSE (n - 1) \div 2

\* mutant: the lower border itself counts as inside the range
M_InRange(i, lower_border, upper_border) == i >= lower_border /\ i < upper_border

\* mutant: the penalty is computed as one percent of the deposit
M_Penalty(deposit, refund) == CheckedDiv(deposit, PERCENT_BASE)

\* the borders and the median index, on usize
LowerBorder(n) == n \div 4
UpperBorder(n) == (n * 3) \div 4
MedianIndex(n) == n \div 2

\* "if inside 25 and 75 percentile range": i is the 0-based loop counter
InRange(i, lower_border, upper_border) == i > lower_border /\ i < upper_border

\* the refund of a message out of the range
Refund(deposit) ==
    LET step == CheckedMul(deposit, REFUND_PERCENT) IN
    IF step = NONE THEN NONE ELSE CheckedDiv(step, PERCENT_BASE)
Penalty(deposit, refund) == CheckedSub(deposit, refund)

\* the body of the loop for one message: [err, L, calls]
RewardOne(L, message) ==
    LET u == unlock(L, message.owner, message.deposit, message.hash)
        c1 == <<UnlockCall(message.owner, message.deposit, message.hash)>>
        t == transfer_from(u.L, token_base, message.owner, REWARD)
        c2 == Append(c1, TransferCall(token_base, message.owner, REWARD))
    IN  IF u.err # Ok THEN [err |-> u.err, L |-> u.L, calls |-> c1]
        ELSE [err |-> t.err, L |-> t.L, calls |-> c2]

PenalizeOne(L, message) ==
    LET refund == Refund(message.deposit)
        penalty == Penalty(message.deposit, refund)
        u1 == unlock(L, message.owner, refund, message.hash)
        c1 == <<UnlockCall(message.owner, refund, message.hash)>>
        u2 == unlock(u1.L, token_base, penalty, message.hash)
        c2 == Append(c1, UnlockCall(token_base, penalty, message.hash))
    IN  IF refund = NONE \/ penalty = NONE THEN [err |-> overflow, L |-> L, calls |-> <<>>]
        ELSE IF u1.err # Ok THEN [err |-> u1.err, L |-> u1.L, calls |-> c1]
        ELSE [err |-> u2.err, L |-> u2.L, calls |-> c2]

\* for message in valid_messages.iter(), from 0-based position i on; stops at
\* the first error, keeping what the earlier iterations wrote
RECURSIVE RewardLoop(_, _, _, _, _, _)
RewardLoop(sorted, i, lower_border, upper_border, L, cs) ==
    IF i >= Len(sorted) THEN [err |-> Ok, L |-> L, calls |-> cs]
    ELSE LET r == IF InRange(i, lower_border, upper_border)
                  THEN RewardOne(L, sorted[i + 1])
                  ELSE PenalizeOne(L, sorted[i + 1])
         IN  IF r.err # Ok THEN [err |-> r.err, L |-> r.L, calls |-> cs \o r.calls]
             ELSE RewardLoop(sorted, i + 1, lower_border, upper_border, r.L, cs \o r.calls)

\* mutant: settlement is accepted at or after the settlement block
M_IsSettlementBlock(block, epoch_end) == block >= epoch_end

\* the test that settlement is due
IsSettlementBlock(block, epoch_end) == block = epoch_end

SendRewardsCheck(origin) ==
    LET epoch_end == CheckedAdd(epoch_start, SETTLEMENT_OFFSET) IN
    IF origin # ROOT THEN BadOrigin
    ELSE IF epoch_end = NONE THEN Overflow
    ELSE IF ~IsSettlementBlock(block_number, epoch_end) THEN TooEarlyRewards
    ELSE IF ~(MedianIndex(Len(ValidMessages)) < Len(ValidMessages)) THEN IndexPanic
    ELSE Ok

send_rewards(origin) ==
    LET check == SendRewardsCheck(origin)
        sorted == SortByValue(ValidMessages)
        n == Len(sorted)
        r == RewardLoop(sorted, 0, LowerBorder(n), UpperBorder(n), Ledger(balance, locked), <<>>)
    IN  IF check # Ok THEN Fails("send_rewards", origin, check)
        ELSE /\ Value' = sorted[MedianIndex(n) + 1].value
             /\ balance' = r.L.bal
             /\ locked' = r.L.lck
             /\ calls' = r.calls
             /\ last' = [op |-> "send_rewards", who |-> origin, res |-> r.err]
             /\ IF r.err # Ok
                THEN UNCHANGED <<ValidMessages, epoch_start>>
                ELSE \* ValidMessages::put(Vec::new()); Self::new_epoch(Root)
                     /\ ValidMessages' = <<>>
                     /\ epoch_start' = block_number
             /\ reveal_seen' = (reveal_seen /\ epoch_start' = epoch_start)
             /\ UNCHANGED <<block_number, Messages, min_deposit>>

----------------------------------------------------------------------------
(* Specification *)

Next ==
    \/ \E d \in Steps : AdvanceBlock(d)
    \/ \E o \in Origins : new_epoch(o)
    \/ \E s \in Accounts, d \in Deposits : \E h \in HashChoices(s) : submit_hash(s, h, d)
    \/ \E s \in Accounts, v \in Values : submit_value(s, v)
    \/ \E s \in Accounts : withdraw(s)
    \/ \E o \in Origins : send_rewards(o)

Spec == Init /\ [][Next]_vars

----------------------------------------------------------------------------
(* Settlement on its own: send_rewards applied at the settlement block to every
   ValidMessages of up to MaxReveal reveals, the i-th made by account i *)

SettleAccounts == 1..MaxReveal
SettleValues == {10, 20, 30, 40}
SettleDeposits == {50, 150}

\* the state at the settlement block of an epoch started at block 0, with reveals
\* of values drawn from values and a treasury holding treasury tokens
SettleInit(values, treasury) ==
    \E n \in 0..MaxReveal :
      \E vals \in [1..n -> values], deps \in [1..n -> SettleDeposits] :
        /\ ValidMessages = [i \in 1..n |->
                              Message(i, STATUS_REVEALED, Hash(i, 0), vals[i], deps[i])]
        /\ balance = [a \in SettleAccounts \cup {token_base} |->
                        IF a = token_base THEN treasury
                        ELSE IF a <= n THEN InitBalance - deps[a] ELSE InitBalance]
        /\ locked = [h \in {Hash(a, 0) : a \in SettleAccounts} |->
                        IF h[1] <= n THEN deps[h[1]] ELSE 0]
        /\ epoch_start = 0
        /\ block_number = SETTLEMENT_OFFSET
        /\ Messages = [a \in {} |-> a]
        /\ Value = 0
        /\ min_deposit = 2
        /\ last = [op |-> "genesis", who |-> ROOT, res |-> Ok]
        /\ calls = <<>>
        /\ reveal_seen = (n > 0)

InitSettle == SettleInit(SettleValues, InitTreasury)

NextSettle == \E o \in Origins : send_rewards(o)

SpecSettle == InitSettle /\ [][NextSettle]_vars

(* The protocol on a chain whose height is close to the largest block number: the
   module's storage is still at its defaults *)

InitHigh ==
    /\ block_number = HighBlock
    /\ epoch_start = 0
    /\ Messages = [a \in {} |-> a]
    /\ ValidMessages = <<>>
    /\ Value = 0
    /\ min_deposit = 2
    /\ balance = [a \in Accounts \cup {token_base} |->
                    IF a = token_base THEN InitTreasury ELSE InitBalance]
    /\ locked = [h \in Hashes |-> 0]
    /\ last = [op |-> "genesis", who |-> ROOT, res |-> Ok]
    /\ calls = <<>>
    /\ reveal_seen = FALSE

\* the clock, up to the largest block number
AdvanceBlockHigh(d) ==
    /\ block_number + d <= MaxBlockNumber
    /\ block_number' = block_number + d
    /\ last' = [op |-> "block", who |-> ROOT, res |-> Ok]
    /\ calls' = <<>>
    /\ UNCHANGED reveal_seen
    /\ UNCHANGED <<epoch_start, Messages, ValidMessages, Value, min_deposit,
                   balance, locked>>

NextHigh ==
    \/ \E d \in Steps : AdvanceBlockHigh(d)
    \/ \E o \in Origins : new_epoch(o)
    \/ \E s \in Accounts, d \in Deposits : \E h \in HashChoices(s) : submit_hash(s, h, d)
    \/ \E s \in Accounts, v \in Values : submit_value(s, v)
    \/ \E s \in Accounts : withdraw(s)
    \/ \E o \in Origins : send_rewards(o)

SpecHigh == InitHigh /\ [][NextHigh]_vars

(* The same with a treasury that holds nothing: the reward transfer fails *)

InitSettleDry == SettleInit(Values, 0)

SpecSettleDry == InitSettleDry /\ [][NextSettle]_vars

----------------------------------------------------------------------------
(* Properties *)

\* the storage of the module and of the token module
store == <<epoch_start, Messages, ValidMessages, Value, min_deposit, balance, locked>>

InRevealWindow ==
    block_number > epoch_start + COMMIT_WINDOW /\ block_number < epoch_start + REVEAL_DEADLINE

\* C1 (as claimed): inside the reveal window, for every live commitment and every
\* value v, submit_value succeeds iff the stored hash equals hash(owner, v), and any
\* other value fails with HashMismatch; so an accepted entry carries a value whose
\* digest is its hash.
C1_RevealBindsValue ==
    /\ InRevealWindow =>
         \A s \in DOMAIN Messages, v \in Values :
            /\ (SubmitValueCheck(s, v) = Ok) <=> (Messages[s].hash = Hash(s, v))
            /\ Messages[s].hash # Hash(s, v) => SubmitValueCheck(s, v) = HashMismatch
    /\ (last.op = "submit_value" /\ last.res = Ok) =>
         LET m == ValidMessages[Len(ValidMessages)] IN m.hash = Hash(m.owner, m.value)

\* C2: an account has at most one entry in Messages, filed under its own key, and a
\* submit_hash by an account that has an entry fails with DuplicateCommitment at any
\* block, for any hash and deposit, and writes nothing.
C2_NoSecondCommitment ==
    [][/\ \A a \in DOMAIN Messages' : Messages'[a].owner = a
       /\ \A s \in Accounts :
            (last'.op = "submit_hash" /\ last'.who = Signed(s) /\ s \in DOMAIN Messages)
            => (last'.res = DuplicateCommitment /\ store' = store)]_vars

\* a second submit_hash refused after the commit deadline and with a deposit that
\* would also have been refused
C2_Witness ==
    /\ last.op = "submit_hash"
    /\ last.res = DuplicateCommitment
    /\ block_number >= epoch_start + COMMIT_WINDOW

\* the sender has a revealed entry awaiting settlement and no live commitment
RevealedOnly(s) ==
    /\ s \notin DOMAIN Messages
    /\ \E i \in 1..Len(ValidMessages) : ValidMessages[i].owner = s

\* C3 (as claimed): a withdraw by a participant whose reveal succeeded, and who has not
\* committed again, fails with InvalidStatus.
C3_WithdrawAfterRevealInvalidStatus ==
    \A s \in Accounts :
        (last.op = "withdraw" /\ last.who = Signed(s) /\ RevealedOnly(s))
        => last.res = InvalidStatus

\* C3 (amended): such a withdraw fails with NoCommitment ("Message hash was not
\* submitted"), and the revealed entry and the ledger are left as they were.
C3_WithdrawAfterRevealNoCommitment ==
    [][\A s \in Accounts :
        (last'.op = "withdraw" /\ last'.who = Signed(s) /\ RevealedOnly(s))
        => (last'.res = NoCommitment /\ store' = store)]_vars

C3_Witness ==
    \E s \in Accounts :
        /\ last.op = "withdraw" /\ last.who = Signed(s) /\ RevealedOnly(s)
        /\ last.res = NoCommitment
        /\ \E i \in 1..Len(ValidMessages) :
              ValidMessages[i].owner = s
              /\ locked[ValidMessages[i].hash] >= ValidMessages[i].deposit

\* C4 (as claimed): send_rewards by root at block epoch_start + 101 with ValidMessages
\* empty completes successfully, leaves ValidMessages empty and sets epoch_start to
\* the current block.
C4_EmptySettlementAdvancesEpoch ==
    [][(/\ last'.op = "send_rewards" /\ last'.who = ROOT
        /\ block_number = epoch_start + SETTLEMENT_OFFSET
        /\ ValidMessages = <<>>)
       => (last'.res = Ok /\ ValidMessages' = <<>> /\ epoch_start' = block_number)]_vars

\* C8: submit_hash succeeds only below epoch_start + 50 and, once the duplicate and
\* deposit checks pass, fails with DeadlinePassed from that block on; submit_value by
\* a participant with a live commitment fails with TooEarly up to and including
\* epoch_start + 50, with DeadlinePassed from epoch_start + 100 on, and succeeds only
\* strictly between.
C8_PhaseGating ==
    /\ last.op = "submit_hash" =>
         /\ last.res = Ok => block_number < epoch_start + COMMIT_WINDOW
         /\ (block_number >= epoch_start + COMMIT_WINDOW
             /\ last.res \notin {DuplicateCommitment, InsufficientDeposit})
            => last.res = DeadlinePassedHash
    /\ (last.op = "submit_value" /\ last.res # NoCommitment) =>
         /\ block_number <= epoch_start + COMMIT_WINDOW => last.res = TooEarlyValue
         /\ block_number >= epoch_start + REVEAL_DEADLINE => last.res = DeadlinePassedValue
         /\ last.res = Ok => InRevealWindow

\* a reveal refused at the commit deadline itself
C8_Witness ==
    /\ last.op = "submit_value"
    /\ last.res = TooEarlyValue
    /\ block_number = epoch_start + COMMIT_WINDOW

\* C9: send_rewards by root gets past the time check only at block epoch_start + 101;
\* at any other block it fails with TooEarly and writes nothing, so it cannot succeed
\* once that block has passed until epoch_start is set again.
C9_SettlementInstant ==
    [][(last'.op = "send_rewards" /\ last'.who = ROOT) =>
         /\ last'.res = Ok => block_number = epoch_start + SETTLEMENT_OFFSET
         /\ block_number # epoch_start + SETTLEMENT_OFFSET
            => (last'.res = TooEarlyRewards /\ store' = store)]_vars

\* a settlement refused one block after the settlement block
C9_Witness ==
    /\ last.op = "send_rewards" /\ last.who = ROOT
    /\ last.res = TooEarlyRewards
    /\ block_number = epoch_start + SETTLEMENT_OFFSET + 1

\* C10 (as claimed): after a successful new_epoch, called directly or at the end of
\* send_rewards, epoch_start is the current block and ValidMessages is empty.
C10_NewEpochClearsRevealed ==
    (last.op \in {"new_epoch", "send_rewards"} /\ last.res = Ok)
    => (epoch_start = block_number /\ ValidMessages = <<>>)

\* C10 (amended): after a successful new_epoch epoch_start is the current block; a
\* direct call leaves ValidMessages as it was, and ValidMessages is empty after the
\* call made at the end of a successful send_rewards.
C10_NewEpochKeepsRevealed ==
    [][/\ (last'.op = "new_epoch" /\ last'.res = Ok)
          => (epoch_start' = block_number /\ ValidMessages' = ValidMessages)
       /\ (last'.op = "send_rewards" /\ last'.res = Ok)
          => (epoch_start' = block_number /\ ValidMessages' = <<>>)]_vars

\* a direct new_epoch over a non-empty ValidMessages
C10_Witness ==
    /\ last.op = "new_epoch" /\ last.res = Ok
    /\ epoch_start = block_number
    /\ ValidMessages # <<>>

\* 0-based position of entry j of s in the order by ascending value in which entries
\* of equal value keep their order in s
StableRank(s, j) ==
    Cardinality({k \in 1..Len(s) : s[k].value < s[j].value})
    + Cardinality({k \in 1..(j - 1) : s[k].value = s[j].value})
StableAt(s, r) == s[CHOOSE j \in 1..Len(s) : StableRank(s, j) = r]

SettledOk == last.op = "send_rewards" /\ last.res = Ok

\* C5: a successful send_rewards runs over a non-empty ValidMessages of n entries and
\* stores in Value the value at index n/2 of the stable ascending order; every step
\* that is not a send_rewards leaves Value unchanged.
C5_MedianValue ==
    [][/\ SettledOk' =>
            /\ ValidMessages # <<>>
            /\ Value' = StableAt(ValidMessages, Len(ValidMessages) \div 2).value
       /\ last'.op # "send_rewards" => Value' = Value]_vars

\* a settlement of three reveals that published 20
C5_Witness == SettledOk /\ Len(calls) = 6 /\ Value = 20

\* the token-module calls C6 describes for the entry m at position i of n
ClaimedCalls(m, i, n) ==
    IF n \div 4 < i /\ i < (3 * n) \div 4
    THEN <<UnlockCall(m.owner, m.deposit, m.hash),
           TransferCall(token_base, m.owner, 100)>>
    ELSE <<UnlockCall(m.owner, (m.deposit * 99) \div 100, m.hash),
           UnlockCall(token_base, m.deposit - (m.deposit * 99) \div 100, m.hash)>>

\* C6: in a successful send_rewards over n entries, the entry at 0-based position i of
\* the stable value order is rewarded (full deposit unlocked to the owner, 100 units
\* transferred from the treasury) exactly when n/4 < i < 3n/4, and otherwise penalized
\* (deposit*99/100 unlocked to the owner, the remainder to the treasury).
C6_InterquartileReward ==
    [][SettledOk' =>
         LET n == Len(ValidMessages) IN
         /\ Len(calls') = 2 * n
         /\ \A i \in 0..(n - 1) :
              SubSeq(calls', 2 * i + 1, 2 * i + 2)
                = ClaimedCalls(StableAt(ValidMessages, i), i, n)]_vars

\* four reveals with median 30: only position 2 is rewarded
C6_Witness ==
    /\ SettledOk /\ Len(calls) = 8 /\ Value = 30
    /\ calls[1][1] = "unlock" /\ calls[2][2] = token_base
    /\ calls[3][1] = "unlock" /\ calls[4][2] = token_base
    /\ calls[5][1] = "unlock" /\ calls[6][1] = "transfer_from"
    /\ calls[7][1] = "unlock" /\ calls[8][2] = token_base

\* total unlocked to account who under tag by the calls cs
RECURSIVE Unlocked(_, _, _)
Unlocked(cs, tag, who) ==
    IF cs = <<>> THEN 0
    ELSE (IF Head(cs)[1] = "unlock" /\ Head(cs)[2] = who /\ Head(cs)[4] = tag
          THEN Head(cs)[3] ELSE 0) + Unlocked(Tail(cs), tag, who)

\* C7: for every entry of a successful send_rewards, what is unlocked under its hash
\* adds up to its deposit: either all of it to the owner, or floor(deposit*99/100) to
\* the owner and the rest to the treasury.
C7_DepositRoundTrip ==
    [][SettledOk' =>
         \A i \in 1..Len(ValidMessages) :
            LET m == ValidMessages[i]
                refund == Unlocked(calls', m.hash, m.owner)
                penalty == Unlocked(calls', m.hash, token_base)
            IN  /\ refund + penalty = m.deposit
                /\ \/ penalty = 0
                   \/ refund = (m.deposit * 99) \div 100]_vars

\* a penalized deposit of 150, whose 99 percent is not a whole number
C7_Witness ==
    /\ SettledOk
    /\ \E k \in 1..(Len(calls) - 1) :
          /\ calls[k][1] = "unlock" /\ calls[k][3] = 148
          /\ calls[k + 1] = UnlockCall(token_base, 2, calls[k][4])


EpochAdvanced ==
    (last.op = "new_epoch" /\ last.res = Ok) \/ SettledOk

\* C11 (as claimed): right after the epoch is advanced, by a successful new_epoch or a
\* successful send_rewards, the Messages map is empty.
C11_EpochAdvanceClearsMessages ==
    EpochAdvanced => DOMAIN Messages = {}

\* C11 (amended): advancing the epoch leaves the Messages map exactly as it was; a
\* commitment of an earlier epoch stays live until it is revealed or withdrawn.
C11_EpochAdvanceKeepsMessages ==
    [][EpochAdvanced' => Messages' = Messages]_vars

\* an epoch started over a pending commitment
C11_Witness ==
    /\ last.op = "new_epoch" /\ last.res = Ok
    /\ epoch_start = block_number
    /\ DOMAIN Messages # {}


ParticipantOps == {"submit_hash", "submit_value", "withdraw"}

\* C12: a submit_hash, submit_value or withdraw that returns an error leaves Messages,
\* ValidMessages, epoch_start, Value, MinDeposit and the ledger as they were.
C12_FailedCallWritesNothing ==
    [][(last'.op \in ParticipantOps /\ last'.res # Ok) => store' = store]_vars

\* a reveal refused for its hash, with a commitment and a revealed entry in store
C12_Witness ==
    /\ last.op = "submit_value" /\ last.res = HashMismatch
    /\ DOMAIN Messages # {}
    /\ ValidMessages # <<>>


\* C13 (as claimed): a send_rewards that returns an error applies none of its results:
\* Value, the ledger, ValidMessages and epoch_start are as they were before the call.
C13_SettlementAllOrNothing ==
    [][(last'.op = "send_rewards" /\ last'.res # Ok) => store' = store]_vars


\* C14: a withdraw by a participant with an entry in Messages does not depend on the
\* block number or on epoch_start: it issues one unlock of the full deposit to the
\* owner under the commitment's hash and, unless that unlock fails, succeeds and
\* removes the entry.
C14_WithdrawAnyTime ==
    [][\A s \in Accounts :
        (last'.op = "withdraw" /\ last'.who = Signed(s) /\ s \in DOMAIN Messages)
        => /\ calls' = <<UnlockCall(s, Messages[s].deposit, Messages[s].hash)>>
           /\ \/ /\ last'.res = Ok
                 /\ Messages' = [a \in DOMAIN Messages \ {s} |-> Messages[a]]
                 /\ ValidMessages' = ValidMessages
              \/ /\ last'.res = LedgerError
                 /\ store' = store]_vars

WithdrawnOk == last.op = "withdraw" /\ last.res = Ok

\* a withdrawal after the reveal deadline of the epoch
C14_Witness ==
    /\ WithdrawnOk
    /\ block_number > epoch_start + REVEAL_DEADLINE


\* sum of the deposits of the entries of the sequence s filed under hash h
RECURSIVE DepositsUnder(_, _)
DepositsUnder(s, h) ==
    IF s = <<>> THEN 0
    ELSE (IF Head(s).hash = h THEN Head(s).deposit ELSE 0) + DepositsUnder(Tail(s), h)

\* sum of the deposits of the entries of Messages filed under hash h
RECURSIVE LiveDepositsUnder(_, _)
LiveDepositsUnder(keys, h) ==
    IF keys = {} THEN 0
    ELSE LET a == CHOOSE k \in keys : TRUE IN
         (IF Messages[a].hash = h THEN Messages[a].deposit ELSE 0)
         + LiveDepositsUnder(keys \ {a}, h)

\* C15 (as claimed): between operations, what the ledger holds locked (under each
\* commitment hash, the key of its locks) is the sum of the deposits of the entries of
\* Messages and ValidMessages filed under it.
C15_LockedEqualsDeposits ==
    \A h \in DOMAIN locked :
        locked[h] = LiveDepositsUnder(DOMAIN Messages, h) + DepositsUnder(ValidMessages, h)


\* C16: when epoch_start + 50 (submit_hash, submit_value), epoch_start + 100
\* (submit_value) or epoch_start + 101 (send_rewards) is beyond the largest block
\* number, the call fails and writes nothing, and the failure is Overflow unless an
\* earlier check of the handler (duplicate, deposit, missing commitment) fails first.
C16_DeadlineOverflowChecked ==
    [][/\ (last'.op = "submit_hash" /\ epoch_start + 50 > MaxBlockNumber)
          => /\ last'.res \in {DuplicateCommitment, InsufficientDeposit, Overflow}
             /\ store' = store
       /\ (last'.op = "submit_value" /\ epoch_start + 100 > MaxBlockNumber)
          => /\ last'.res \in {NoCommitment, Overflow}
             /\ store' = store
       /\ (last'.op = "send_rewards" /\ last'.who = ROOT
           /\ epoch_start + 101 > MaxBlockNumber)
          => /\ last'.res = Overflow
             /\ store' = store]_vars

\* a reveal refused because epoch_start + 100 overflows while epoch_start + 50 does not
C16_Witness ==
    /\ last.op = "submit_value" /\ last.res = Overflow
    /\ epoch_start + 50 <= MaxBlockNumber
    /\ epoch_start + 100 > MaxBlockNumber


\* C17 (as claimed): in every reachable state each account owns at most one entry of
\* ValidMessages.
C17_NoDoubleReveal ==
    \A a \in Accounts :
        Cardinality({i \in 1..Len(ValidMessages) : ValidMessages[i].owner = a}) <= 1


StatusShape ==
    /\ \A k \in DOMAIN Messages :
          Messages[k].status = STATUS_COMMITTED /\ Messages[k].value = 0
    /\ \A i \in 1..Len(ValidMessages) : ValidMessages[i].status = STATUS_REVEALED

\* an entry enters Messages only by a successful submit_hash of its owner, which
\* consumes no revealed entry; ValidMessages only grows by one revealed entry or is
\* emptied, and a removed entry of Messages was either revealed or withdrawn
StatusStep ==
    /\ \A k \in DOMAIN Messages' :
          (k \notin DOMAIN Messages \/ Messages'[k] # Messages[k])
          => /\ k \notin DOMAIN Messages
             /\ last'.op = "submit_hash" /\ last'.who = Signed(k) /\ last'.res = Ok
             /\ ValidMessages' = ValidMessages
    /\ \/ ValidMessages' = ValidMessages
       \/ ValidMessages' = <<>>
       \/ /\ Len(ValidMessages') = Len(ValidMessages) + 1
          /\ SubSeq(ValidMessages', 1, Len(ValidMessages)) = ValidMessages
          /\ ValidMessages'[Len(ValidMessages')].status = STATUS_REVEALED
          /\ ValidMessages'[Len(ValidMessages')].owner \in DOMAIN Messages
          /\ ValidMessages'[Len(ValidMessages')].owner \notin DOMAIN Messages'

\* C18: in every reachable state every entry of Messages has status 1 and value 0 and
\* every entry of ValidMessages has status 2; no step gives a stored entry the status
\* Committed again: entries of Messages are only created by submit_hash, and revealed
\* entries are only appended or consumed.
C18_StatusNeverBackward == []StatusShape /\ [][StatusStep]_vars

C18_Witness ==
    /\ DOMAIN Messages # {}
    /\ ValidMessages # <<>>
    /\ last.op = "submit_value" /\ last.res = Ok


\* the entries of ValidMessages are all still there, in place
EntriesKept ==
    /\ Len(ValidMessages') >= Len(ValidMessages)
    /\ SubSeq(ValidMessages', 1, Len(ValidMessages)) = ValidMessages

\* C19 (as claimed): every step other than a successful send_rewards (submit_hash,
\* withdraw, new_epoch, and failed calls of any operation) leaves each entry of
\* ValidMessages in place and its deposit locked; a successful send_rewards empties
\* ValidMessages and releases the deposits.
C19_RevealedLeavesOnlyBySettlement ==
    [][/\ ~SettledOk'
          => /\ EntriesKept
             /\ \A h \in DOMAIN locked' : locked'[h] >= DepositsUnder(ValidMessages, h)
       /\ SettledOk'
          => /\ ValidMessages' = <<>>
             /\ \A h \in DOMAIN locked' :
                   locked'[h] = locked[h] - DepositsUnder(ValidMessages, h)]_vars


\* C20: the clock never goes back, and while epoch_start is unchanged no submit_hash
\* succeeds after a submit_value has succeeded: a submit_hash succeeds only before
\* block epoch_start + 50 and with no reveal seen in the epoch, a submit_value only
\* after that block, and at block epoch_start + 50 neither succeeds.
C20_CommitPrecedesReveal ==
    [][/\ block_number' >= block_number
       /\ (last'.op = "submit_hash" /\ last'.res = Ok)
          => (~reveal_seen /\ block_number < epoch_start + COMMIT_WINDOW)
       /\ (last'.op = "submit_value" /\ last'.res = Ok)
          => (reveal_seen' /\ block_number > epoch_start + COMMIT_WINDOW)
       /\ (last'.op \in {"submit_hash", "submit_value"}
           /\ block_number = epoch_start + COMMIT_WINDOW)
          => last'.res # Ok]_vars

C20_Witness ==
    /\ reveal_seen
    /\ last.op = "submit_hash" /\ last.res = DeadlinePassedHash
    /\ block_number > epoch_start + COMMIT_WINDOW

====
